---- MODULE Spec2Model ----
(***************************************************************************)
(* A model of tinydb's Table (tinydb/table.py) and of the LRUCache that    *)
(* backs its query cache (tinydb/utils.py).                                *)
(*                                                                         *)
(* Python values are modelled as follows.                                  *)
(*   - None is the integer -1 (document IDs and capacities are >= 0).      *)
(*   - An OrderedDict is a sequence of <<key, value>> pairs, oldest first. *)
(*   - A document's content is a record [x |-> v]; the stored table is a   *)
(*     function from the stored IDs to contents.                           *)
(***************************************************************************)
EXTENDS Integers, Sequences, FiniteSets, TLC

None == -1

\* ---------------------------------------------------------------- bounds
\* Largest document ID the model stores or allocates.
MaxId == 2
\* Longest list handed to an operation that takes a list.
MaxBatch == 1
\* Number of successful get/set calls followed on the stand-alone LRUCache.
MaxOps == 4
\* Largest capacity of the stand-alone LRUCache.
MaxCap == 2

\* Values of the one content field "x".
Vals == {0, 1}
\* Keys and values of the stand-alone LRUCache.
Keys == {"a", "b", "c"}

\* Table instances opened on the one storage.
Inst == {"A", "B"}
\* Query predicates: cond(doc) is doc["x"] == 0, resp. doc["x"] == 1.
Conds == {"x0", "x1"}

VARIABLES
    \* ---- the storage and the Table instances on it (tinydb/table.py)
    storage,        \* storage.read()[name]: document ID -> content
    next_id,        \* Table._next_id of each instance
    query_cache,    \* Table._query_cache.cache of each instance
    capacity,       \* Table._query_cache.capacity of each instance
    ret,            \* the last call: the instance t, the operation op, whether it
                    \* raised, the number of storage.read() calls it made, and
                    \* what it returned: val, the ID or list of IDs, or docs, the
                    \* list of documents
    auto_last,      \* history: the ID that was allocated last, by an insert
                    \* without explicit ID or by a call of _get_next_id (0: none
                    \* yet, or none since the last truncate)
    call,           \* history: the arguments of the last call, in the
                    \* specifications that record them
    pending,        \* of each instance, the call that is inside _update_table,
                    \* between its storage.read() and its storage.write(): its
                    \* arguments and the snapshot it read (kept after the write,
                    \* with `lost`: the storage had changed since the read)
    returned,       \* history: the IDs that the inserts on instance A have
                    \* returned since the last truncate, in the specification
                    \* that records them
    \* ---- the stand-alone LRUCache (tinydb/utils.py)
    lru_cache,      \* LRUCache.cache: the OrderedDict
    lru_capacity,   \* LRUCache.capacity
    lru_ret,        \* the last call on it: [op, key, val, raised]
    lru_clock,      \* history: number of successful get/set calls so far
    lru_used        \* history: key -> clock value of its last successful get/set (0: never)

table_vars ==
    <<storage, next_id, query_cache, capacity, ret, auto_last, call, pending,
      returned>>
lru_vars == <<lru_cache, lru_capacity, lru_ret, lru_clock, lru_used>>

\* ------------------------------------------------------------ OrderedDict
\* key in od
od_has(od, k) == \E i \in 1..Len(od) : od[i][1] = k
\* od[key], for a key that is present
od_value(od, k) == od[CHOOSE i \in 1..Len(od) : od[i][1] = k][2]
\* del od[key]
od_del(od, k) == SelectSeq(od, LAMBDA e : e[1] # k)
\* list(od.keys())
od_keys(od) == [i \in 1..Len(od) |-> od[i][1]]
\* set(od.keys())
od_keyset(od) == {od[i][1] : i \in 1..Len(od)}

\* --------------------------------------------------------------- LRUCache
\* LRUCache.__contains__: the cache after the call (the test itself is od_has).
LRUCache_contains_promoting(c, k) ==
    IF od_has(c, k) THEN Append(od_del(c, k), <<k, od_value(c, k)>>) ELSE c

LRUCache_contains(c, k) == c

\* LRUCache.__setitem__: the cache after self[key] = value.
LRUCache_setitem_no_evict(c, cap, k, v) ==
    Append(IF od_has(c, k) THEN od_del(c, k) ELSE c, <<k, v>>)

LRUCache_setitem(c, cap, k, v) ==
    LET ins == Append(IF od_has(c, k) THEN od_del(c, k) ELSE c, <<k, v>>)
    IN IF cap # None /\ Len(ins) > cap THEN Tail(ins) ELSE ins

\* LRUCache.__getitem__ for a present key: the cache after the call.
LRUCache_getitem_no_move(c, k) == c

LRUCache_getitem(c, k) == Append(od_del(c, k), <<k, od_value(c, k)>>)

\* LRUCache.__delitem__ for a present key.
LRUCache_delitem(c, k) == od_del(c, k)

\* LRUCache.clear
LRUCache_clear(c) == <<>>

\* LRUCache.lru
LRUCache_lru(c) == od_keys(c)

\* LRUCache.__len__
LRUCache_len(c) == Len(c)

\* ------------------------------------------------------- Python values
\* Document(value, doc_id), a plain dict, and an object that is no Mapping.
Document(v, d) == [kind |-> "Document", doc_id |-> d, x |-> v]
PlainDict(v) == [kind |-> "dict", doc_id |-> None, x |-> v]
NotAMapping == [kind |-> "other", doc_id |-> None, x |-> None]
\* isinstance(o, Mapping), isinstance(o, Document), dict(o)
is_mapping(o) == o.kind \in {"dict", "Document"}
is_document(o) == o.kind = "Document"
dict(o) == [kind |-> "dict", doc_id |-> None, x |-> o.x]
\* what is stored for a mapping: its items
items(o) == [x |-> o.x]

\* table[k] = v and del table[k] on a dict
dict_set(table, k, v) == [j \in DOMAIN table \cup {k} |-> IF j = k THEN v ELSE table[j]]
dict_del(table, k) == [j \in DOMAIN table \ {k} |-> table[j]]

Max(S) == CHOOSE m \in S : \A y \in S : y <= m
\* The elements of a list
Elems(l) == {l[i] : i \in 1..Len(l)}

\* list(table.keys()). A dict's iteration order is that of the storage's snapshot;
\* it is abstracted to ascending IDs.
RECURSIVE keys_list(_)
keys_list(S) ==
    IF S = {} THEN <<>>
    ELSE LET m == CHOOSE a \in S : \A y \in S : a <= y
         IN <<m>> \o keys_list(S \ {m})

\* cond(doc) for a query predicate
cond_call(cond, doc) == IF cond = "x0" THEN doc.x = 0 ELSE doc.x = 1

\* fields: a mapping {"x": v}, or the callable that flips doc["x"]
FieldsDict(v) == [kind |-> "dict", x |-> v]
FieldsCallable == [kind |-> "callable", x |-> None]
\* table[doc_id].update(fields), resp. fields(doc) on a copy that is stored back
apply_fields(fields, doc) ==
    IF fields.kind = "callable" THEN [x |-> 1 - doc.x] ELSE [x |-> fields.x]

\* A call that raised before it changed anything.
Raised(stored, self, reads) ==
    [storage |-> stored, self |-> self, val |-> <<>>, raised |-> TRUE, reads |-> reads]

\* ------------------------------------------------------------------ Table
\* Table._get_next_id, given the stored table _read_table would return
get_next_id(stored, nid) ==
    IF nid = None
    THEN LET n == IF DOMAIN stored # {} THEN Max(DOMAIN stored) + 1 ELSE 1
         IN [id |-> n, next_id |-> n, reads |-> 1]
    ELSE [id |-> nid, next_id |-> nid + 1, reads |-> 0]

\* The storage, whose code is not part of tinydb/table.py: what it holds when an
\* updater raised after changing `table`, the table of the snapshot read() handed
\* out. A snapshot is the caller's own, and write() was not called: the storage
\* holds what it held.
storage_after_raise(stored, table) == stored

\* Table._update_table, lines 465-466: what a storage that holds `held` holds
\* after raw_data[name] = table and storage.write(raw_data)
update_table_write_merging(held, table) ==
    [d \in DOMAIN held \cup DOMAIN table |->
        IF d \in DOMAIN table THEN table[d] ELSE held[d]]

update_table_write(held, table) == table

\* Table._update_table: what storage holds after read, updater(table), write.
update_table_writing_always(stored, upd) == upd.table

update_table(stored, upd) ==
    IF upd.raised THEN storage_after_raise(stored, upd.table) ELSE upd.table

\* Table.insert's updater, with `document` as bound when the updater runs
insert_updater(stored, table, nid, document, doc_id) ==
    IF doc_id \in DOMAIN table
    THEN IF is_document(document)
         THEN [raised |-> TRUE, table |-> table, next_id |-> nid,
               final_doc_id |-> doc_id, reads |-> 0]
         ELSE LET g == get_next_id(stored, nid)
              IN [raised |-> FALSE, table |-> dict_set(table, g.id, items(document)),
                  next_id |-> g.next_id, final_doc_id |-> g.id, reads |-> g.reads]
    ELSE [raised |-> FALSE, table |-> dict_set(table, doc_id, items(document)),
          next_id |-> nid, final_doc_id |-> doc_id, reads |-> 0]

\* Table.insert
insert(stored, self, document) ==
    IF ~is_mapping(document) THEN Raised(stored, self, 0)
    ELSE LET first == IF is_document(document)
                      THEN [id |-> document.doc_id, next_id |-> self.next_id, reads |-> 0]
                      ELSE get_next_id(stored, self.next_id)
             \* line 104 rebinds `document` to a plain dict
             bound == IF is_document(document) THEN dict(document) ELSE document
             upd == insert_updater(stored, stored, first.next_id, bound, first.id)
         IN IF upd.raised
            THEN [storage |-> update_table(stored, upd),
                  self |-> [self EXCEPT !.next_id = upd.next_id],
                  val |-> <<>>, raised |-> TRUE, reads |-> first.reads + 1 + upd.reads]
            ELSE [storage |-> update_table(stored, upd),
                  self |-> [self EXCEPT !.next_id = upd.next_id,
                                        !.query_cache = LRUCache_clear(@)],
                  val |-> <<upd.final_doc_id>>, raised |-> FALSE,
                  reads |-> first.reads + 1 + upd.reads]

\* Table.insert_multiple, lines 139-149: the loop that allocates the IDs
RECURSIVE allocate_ids(_, _, _, _, _, _)
allocate_ids(stored, nid, documents, i, doc_ids, reads) ==
    IF i > Len(documents)
    THEN [raised |-> FALSE, next_id |-> nid, doc_ids |-> doc_ids, reads |-> reads]
    ELSE IF ~is_mapping(documents[i])
    THEN [raised |-> TRUE, next_id |-> nid, doc_ids |-> doc_ids, reads |-> reads]
    ELSE IF is_document(documents[i])
    THEN allocate_ids(stored, nid, documents, i + 1,
                      Append(doc_ids, documents[i].doc_id), reads)
    ELSE LET g == get_next_id(stored, nid)
         IN allocate_ids(stored, g.next_id, documents, i + 1,
                         Append(doc_ids, g.id), reads + g.reads)

\* Table.insert_multiple's updater, from the i-th document on
RECURSIVE insert_multiple_updater(_, _, _, _, _, _, _, _)
insert_multiple_updater(stored, table, nid, documents, doc_ids, i, final_doc_ids, reads) ==
    IF i > Len(documents)
    THEN [raised |-> FALSE, table |-> table, next_id |-> nid,
          final_doc_ids |-> final_doc_ids, reads |-> reads]
    ELSE IF doc_ids[i] \in DOMAIN table
    THEN IF is_document(documents[i])
         THEN [raised |-> TRUE, table |-> table, next_id |-> nid,
               final_doc_ids |-> final_doc_ids, reads |-> reads]
         ELSE LET g == get_next_id(stored, nid)
              IN insert_multiple_updater(
                     stored, dict_set(table, g.id, items(documents[i])), g.next_id,
                     documents, doc_ids, i + 1,
                     [final_doc_ids EXCEPT ![i] = g.id], reads + g.reads)
    ELSE insert_multiple_updater(
             stored, dict_set(table, doc_ids[i], items(documents[i])), nid,
             documents, doc_ids, i + 1, final_doc_ids, reads)

\* Table.insert_multiple
insert_multiple(stored, self, documents) ==
    IF Len(documents) = 1 /\ ~is_mapping(documents[1]) THEN Raised(stored, self, 0)
    ELSE LET alloc == allocate_ids(stored, self.next_id, documents, 1, <<>>, 0)
         IN IF alloc.raised
            THEN Raised(stored, [self EXCEPT !.next_id = alloc.next_id], alloc.reads)
            ELSE LET upd == insert_multiple_updater(
                                stored, stored, alloc.next_id, documents,
                                alloc.doc_ids, 1, alloc.doc_ids, 0)
                 IN IF upd.raised
                    THEN [storage |-> update_table(stored, upd),
                          self |-> [self EXCEPT !.next_id = upd.next_id],
                          val |-> <<>>, raised |-> TRUE,
                          reads |-> alloc.reads + 1 + upd.reads]
                    ELSE [storage |-> update_table(stored, upd),
                          self |-> [self EXCEPT !.next_id = upd.next_id,
                                                !.query_cache = LRUCache_clear(@)],
                          val |-> upd.final_doc_ids, raised |-> FALSE,
                          reads |-> alloc.reads + 1 + upd.reads]

\* An optional list argument: None, or list(doc_ids)
NoIds == [given |-> FALSE, list |-> <<>>]
IdList(l) == [given |-> TRUE, list |-> l]
\* An optional predicate: None is the string "None"
NoCond == "None"
\* The arguments of a call: the documents of insert_multiple, and the cond,
\* doc_id and doc_ids of update, remove, get and contains
Args(documents, cond, doc_id, doc_ids) ==
    [documents |-> documents, cond |-> cond, doc_id |-> doc_id, doc_ids |-> doc_ids]
NoArgs == Args(<<>>, NoCond, None, NoIds)

\* The IDs of the documents of `table` that satisfy cond (all of them for cond None)
matching(table, cond) ==
    {d \in DOMAIN table : cond = NoCond \/ cond_call(cond, table[d])}

\* Table.update's updater, doc_ids branch, from the i-th requested ID on
RECURSIVE update_by_ids(_, _, _, _, _)
RECURSIVE update_by_ids_reporting_all(_, _, _, _, _)
update_by_ids_reporting_all(table, fields, doc_ids, i, updated_ids) ==
    IF i > Len(doc_ids) THEN [table |-> table, updated_ids |-> updated_ids]
    ELSE update_by_ids_reporting_all(
             IF doc_ids[i] \in DOMAIN table
             THEN [table EXCEPT ![doc_ids[i]] = apply_fields(fields, @)] ELSE table,
             fields, doc_ids, i + 1, Append(updated_ids, doc_ids[i]))

update_by_ids(table, fields, doc_ids, i, updated_ids) ==
    IF i > Len(doc_ids) THEN [table |-> table, updated_ids |-> updated_ids]
    ELSE IF doc_ids[i] \in DOMAIN table
    THEN update_by_ids([table EXCEPT ![doc_ids[i]] = apply_fields(fields, @)],
                       fields, doc_ids, i + 1, Append(updated_ids, doc_ids[i]))
    ELSE update_by_ids(table, fields, doc_ids, i + 1, updated_ids)

\* Table.update's updater
update_updater(table, fields, cond, doc_ids) ==
    IF doc_ids.given
    THEN update_by_ids(table, fields, doc_ids.list, 1, <<>>)
    ELSE [table |-> [d \in DOMAIN table |->
                        IF d \in matching(table, cond)
                        THEN apply_fields(fields, table[d]) ELSE table[d]],
          updated_ids |-> keys_list(matching(table, cond))]

\* Table.update
update_keeping_cache(stored, self, fields, cond, doc_ids) ==
    LET upd == update_updater(stored, fields, cond, doc_ids)
    IN [storage |-> update_table(stored, [raised |-> FALSE, table |-> upd.table]),
        self |-> self,
        val |-> upd.updated_ids, raised |-> FALSE, reads |-> 1]

update(stored, self, fields, cond, doc_ids) ==
    LET upd == update_updater(stored, fields, cond, doc_ids)
    IN [storage |-> update_table(stored, [raised |-> FALSE, table |-> upd.table]),
        self |-> [self EXCEPT !.query_cache = LRUCache_clear(@)],
        val |-> upd.updated_ids, raised |-> FALSE, reads |-> 1]

\* Table.update_multiple, from the i-th (fields, cond) pair on
RECURSIVE update_multiple_from(_, _, _, _, _, _)
update_multiple_from(stored, self, updates, i, updated_ids, reads) ==
    IF i > Len(updates)
    THEN [storage |-> stored, self |-> self, val |-> updated_ids,
          raised |-> FALSE, reads |-> reads]
    ELSE LET r == update(stored, self, updates[i][1], updates[i][2], NoIds)
         IN update_multiple_from(r.storage, r.self, updates, i + 1,
                                 updated_ids \o r.val, reads + r.reads)

\* Table.update_multiple
update_multiple(stored, self, updates) ==
    update_multiple_from(stored, self, updates, 1, <<>>, 0)

\* Table.upsert
upsert(stored, self, document, cond) ==
    IF is_document(document)
    THEN LET u == update(stored, self, FieldsDict(document.x), NoCond,
                         IdList(<<document.doc_id>>))
         IN IF u.val # <<>> THEN u
            ELSE LET r == insert(u.storage, u.self, dict(document))
                 IN [r EXCEPT !.reads = u.reads + r.reads]
    ELSE LET u == update(stored, self, FieldsDict(document.x), cond, NoIds)
         IN IF u.val # <<>> THEN u
            ELSE LET r == insert(u.storage, u.self, document)
                 IN [r EXCEPT !.reads = u.reads + r.reads]

\* Table.remove's updater, doc_ids branch, from the i-th requested ID on
RECURSIVE remove_by_ids(_, _, _, _)
remove_by_ids(table, doc_ids, i, removed) ==
    IF i > Len(doc_ids) THEN [table |-> table, removed |-> removed]
    ELSE IF doc_ids[i] \in DOMAIN table
    THEN remove_by_ids(dict_del(table, doc_ids[i]), doc_ids, i + 1,
                       Append(removed, doc_ids[i]))
    ELSE remove_by_ids(table, doc_ids, i + 1, removed)

\* Table.remove's updater
remove_updater_cond_first(table, cond, doc_ids) ==
    IF cond = NoCond
    THEN remove_by_ids(table, doc_ids.list, 1, <<>>)
    ELSE [table |-> [d \in DOMAIN table \ matching(table, cond) |-> table[d]],
          removed |-> keys_list(matching(table, cond))]

remove_updater(table, cond, doc_ids) ==
    IF doc_ids.given
    THEN remove_by_ids(table, doc_ids.list, 1, <<>>)
    ELSE [table |-> [d \in DOMAIN table \ matching(table, cond) |-> table[d]],
          removed |-> keys_list(matching(table, cond))]

\* Table.remove
remove_keeping_cache(stored, self, cond, doc_ids) ==
    IF cond = NoCond /\ ~doc_ids.given THEN Raised(stored, self, 0)
    ELSE LET upd == remove_updater(stored, cond, doc_ids)
         IN [storage |-> update_table(stored, [raised |-> FALSE, table |-> upd.table]),
             self |-> self,
             val |-> upd.removed, raised |-> FALSE, reads |-> 1]

remove_unchecked(stored, self, cond, doc_ids) ==
    LET upd == remove_updater(stored, cond, doc_ids)
    IN [storage |-> update_table(stored, [raised |-> FALSE, table |-> upd.table]),
        self |-> [self EXCEPT !.query_cache = LRUCache_clear(@)],
        val |-> upd.removed, raised |-> FALSE, reads |-> 1]

remove(stored, self, cond, doc_ids) ==
    IF cond = NoCond /\ ~doc_ids.given THEN Raised(stored, self, 0)
    ELSE LET upd == remove_updater(stored, cond, doc_ids)
         IN [storage |-> update_table(stored, [raised |-> FALSE, table |-> upd.table]),
             self |-> [self EXCEPT !.query_cache = LRUCache_clear(@)],
             val |-> upd.removed, raised |-> FALSE, reads |-> 1]

\* Table.truncate
truncate_keeping_cursor(stored, self) ==
    [storage |-> update_table(stored, [raised |-> FALSE, table |-> <<>>]),
     self |-> [self EXCEPT !.query_cache = LRUCache_clear(@)],
     val |-> <<>>, raised |-> FALSE, reads |-> 1]

truncate(stored, self) ==
    [storage |-> update_table(stored, [raised |-> FALSE, table |-> <<>>]),
     self |-> [self EXCEPT !.query_cache = LRUCache_clear(@), !.next_id = 1],
     val |-> <<>>, raised |-> FALSE, reads |-> 1]

\* Table.all: the documents as [doc_id, x] records
all(stored) ==
    LET ids == keys_list(DOMAIN stored)
    IN [i \in 1..Len(ids) |-> [doc_id |-> ids[i], x |-> stored[ids[i]].x]]

\* Table.search
search_uncached(stored, self, cond) ==
    LET docs == SelectSeq(all(stored), LAMBDA doc : cond_call(cond, doc))
    IN [storage |-> stored,
        self |-> [self EXCEPT !.query_cache =
                      LRUCache_setitem(@, self.capacity, cond, docs)],
        val |-> docs, raised |-> FALSE, reads |-> 1]

search(stored, self, cond) ==
    LET tested == LRUCache_contains(self.query_cache, cond)
    IN IF od_has(tested, cond)
       THEN [storage |-> stored,
             self |-> [self EXCEPT !.query_cache = LRUCache_getitem(tested, cond)],
             val |-> od_value(tested, cond), raised |-> FALSE, reads |-> 0]
       ELSE LET docs == SelectSeq(all(stored), LAMBDA doc : cond_call(cond, doc))
            IN [storage |-> stored,
                self |-> [self EXCEPT !.query_cache =
                              LRUCache_setitem(tested, self.capacity, cond, docs)],
                val |-> docs, raised |-> FALSE, reads |-> 1]

\* Table.get; None is returned as the empty list
get_clearing_cache(stored, self, cond, doc_id, doc_ids) ==
    IF cond = NoCond /\ doc_id = None /\ ~doc_ids.given THEN Raised(stored, self, 0)
    ELSE IF doc_id # None
    THEN [storage |-> stored, self |-> [self EXCEPT !.query_cache = LRUCache_clear(@)],
          val |-> SelectSeq(all(stored), LAMBDA doc : doc.doc_id = doc_id),
          raised |-> FALSE, reads |-> 1]
    ELSE IF doc_ids.given
    THEN [storage |-> stored, self |-> self,
          val |-> SelectSeq(all(stored), LAMBDA doc : doc.doc_id \in Elems(doc_ids.list)),
          raised |-> FALSE, reads |-> 1]
    ELSE LET docs == search(stored, self, cond)
         IN [docs EXCEPT !.val = IF docs.val # <<>> THEN <<docs.val[1]>> ELSE <<>>]

get(stored, self, cond, doc_id, doc_ids) ==
    IF cond = NoCond /\ doc_id = None /\ ~doc_ids.given THEN Raised(stored, self, 0)
    ELSE IF doc_id # None
    THEN [storage |-> stored, self |-> self,
          val |-> IF doc_id \in DOMAIN stored
                  THEN <<[doc_id |-> doc_id, x |-> stored[doc_id].x]>> ELSE <<>>,
          raised |-> FALSE, reads |-> 1]
    ELSE IF doc_ids.given
    THEN [storage |-> stored, self |-> self,
          val |-> [i \in 1..Len(SelectSeq(doc_ids.list, LAMBDA d : d \in DOMAIN stored)) |->
                     LET did == SelectSeq(doc_ids.list, LAMBDA d : d \in DOMAIN stored)[i]
                     IN [doc_id |-> did, x |-> stored[did].x]],
          raised |-> FALSE, reads |-> 1]
    ELSE LET docs == search(stored, self, cond)
         IN [docs EXCEPT !.val = IF docs.val # <<>> THEN <<docs.val[1]>> ELSE <<>>]

\* Table.contains; the bool is returned as 1 or 0
contains(stored, self, cond, doc_id) ==
    IF cond = NoCond /\ doc_id = None THEN Raised(stored, self, 0)
    ELSE IF doc_id # None
    THEN [storage |-> stored, self |-> self,
          val |-> IF doc_id \in DOMAIN stored THEN <<1>> ELSE <<0>>,
          raised |-> FALSE, reads |-> 1]
    ELSE LET g == get(stored, self, cond, None, NoIds)
         IN [g EXCEPT !.val = IF g.val # <<>> THEN <<1>> ELSE <<0>>]

\* Table.count
count(stored, self, cond) ==
    LET docs == search(stored, self, cond)
    IN [docs EXCEPT !.val = <<Len(docs.val)>>]

\* Table.__len__
table_len(stored, self) ==
    [storage |-> stored, self |-> self, val |-> <<Cardinality(DOMAIN stored)>>,
     raised |-> FALSE, reads |-> 1]

\* Table.__iter__, run to its end
table_iter(stored, self) ==
    [storage |-> stored, self |-> self, val |-> all(stored),
     raised |-> FALSE, reads |-> 1]

\* Table.clear_cache
clear_cache(stored, self) ==
    [storage |-> stored, self |-> [self EXCEPT !.query_cache = LRUCache_clear(@)],
     val |-> <<>>, raised |-> FALSE, reads |-> 0]

\* ------------------------------------------- the stand-alone LRUCache
LruInit ==
    /\ lru_cache = <<>>
    /\ lru_capacity \in {None} \cup (0..MaxCap)
    /\ lru_ret = [op |-> "init", key |-> "a", val |-> None, raised |-> FALSE]
    /\ lru_clock = 0
    /\ lru_used = [k \in Keys |-> 0]

\* cache[key] = value
LruSet(k, v) ==
    /\ lru_clock < MaxOps
    /\ lru_cache' = LRUCache_setitem(lru_cache, lru_capacity, k, v)
    /\ lru_ret' = [op |-> "set", key |-> k, val |-> None, raised |-> FALSE]
    /\ lru_clock' = lru_clock + 1
    /\ lru_used' = [lru_used EXCEPT ![k] = lru_clock + 1]
    /\ UNCHANGED <<lru_capacity, table_vars>>

\* cache[key], and cache.get(key), which returns the default where cache[key] raises
LruGet(k) ==
    /\ UNCHANGED <<lru_capacity, table_vars>>
    /\ IF od_has(lru_cache, k)
       THEN /\ lru_clock < MaxOps
            /\ lru_cache' = LRUCache_getitem(lru_cache, k)
            /\ lru_ret' = [op |-> "get", key |-> k,
                           val |-> od_value(lru_cache, k), raised |-> FALSE]
            /\ lru_clock' = lru_clock + 1
            /\ lru_used' = [lru_used EXCEPT ![k] = lru_clock + 1]
       ELSE /\ lru_ret' = [op |-> "get", key |-> k, val |-> None, raised |-> TRUE]
            /\ UNCHANGED <<lru_cache, lru_clock, lru_used>>

\* key in cache
LruContains(k) ==
    /\ lru_cache' = LRUCache_contains(lru_cache, k)
    /\ lru_ret' = [op |-> "contains", key |-> k,
                   val |-> IF od_has(lru_cache, k) THEN 1 ELSE 0, raised |-> FALSE]
    /\ UNCHANGED <<lru_capacity, lru_clock, lru_used, table_vars>>

\* del cache[key]
LruDelete(k) ==
    /\ UNCHANGED <<lru_capacity, lru_clock, lru_used, table_vars>>
    /\ IF od_has(lru_cache, k)
       THEN /\ lru_cache' = LRUCache_delitem(lru_cache, k)
            /\ lru_ret' = [op |-> "delete", key |-> k, val |-> None, raised |-> FALSE]
       ELSE /\ lru_ret' = [op |-> "delete", key |-> k, val |-> None, raised |-> TRUE]
            /\ UNCHANGED lru_cache

\* cache.clear()
LruClear ==
    /\ lru_cache' = LRUCache_clear(lru_cache)
    /\ lru_ret' = [op |-> "clear", key |-> "a", val |-> None, raised |-> FALSE]
    /\ UNCHANGED <<lru_capacity, lru_clock, lru_used, table_vars>>

LruNext ==
    \/ \E k \in Keys, v \in Vals : LruSet(k, v)
    \/ \E k \in Keys : LruGet(k)
    \/ \E k \in Keys : LruContains(k)
    \/ \E k \in Keys : LruDelete(k)
    \/ LruClear

vars == <<table_vars, lru_vars>>

\* ------------------------------------------------- the Table instances
\* Table.default_query_cache_capacity
default_query_cache_capacity == 10
\* The cache_size values a Table is constructed with
CacheSizes == {0, 1, default_query_cache_capacity}

\* All sequences over S of length at most n
SeqsUpTo(S, n) == UNION {[1..m -> S] : m \in 0..n}

Ids == 1..MaxId
\* The tables a storage may hold when a Table is opened on it
StoredTables == UNION {[D -> [x : Vals]] : D \in SUBSET Ids}
\* The arguments the calls are made with
PlainDicts == {PlainDict(v) : v \in Vals}
Documents == {Document(v, d) : v \in Vals, d \in Ids}
Objects == PlainDicts \cup Documents \cup {NotAMapping}
BatchObjects == PlainDicts \cup {Document(1, d) : d \in Ids} \cup {NotAMapping}
Fields == {FieldsDict(v) : v \in Vals} \cup {FieldsCallable}
Updates == {<<FieldsDict(1), "x0">>, <<FieldsCallable, "x1">>}
OptConds == Conds \cup {NoCond}
IdLists == {IdList(l) : l \in SeqsUpTo(Ids, MaxBatch)}
\* (cond, doc_ids): a predicate or nothing, a list of IDs, or both
Selections == {<<c, NoIds>> : c \in OptConds}
              \cup {<<c, l>> : c \in {NoCond, "x0"}, l \in IdLists}
\* (document, cond) of upsert
Upserts == {<<d, c>> : d \in PlainDicts, c \in OptConds}
           \cup {<<d, NoCond>> : d \in Documents}

\* No call of the instance is inside _update_table
NoPending == [active |-> FALSE, op |-> "none", document |-> NotAMapping,
              fields |-> FieldsDict(0), cond |-> NoCond, snapshot |-> <<>>,
              lost |-> FALSE]

\* Table.__init__ of every instance, on a storage that may already hold documents
TableInit ==
    /\ storage \in StoredTables
    /\ next_id = [t \in Inst |-> None]
    /\ query_cache = [t \in Inst |-> <<>>]
    /\ capacity \in [Inst -> CacheSizes]
    /\ ret = [t |-> "A", op |-> "init", raised |-> FALSE, reads |-> 0,
              val |-> <<>>, docs |-> <<>>]
    /\ auto_last = 0
    /\ call = NoArgs
    /\ pending = [t \in Inst |-> NoPending]
    /\ returned = {}

Self(t) == [next_id |-> next_id[t], query_cache |-> query_cache[t],
            capacity |-> capacity[t]]

\* The operations that return documents (the others return IDs or a number)
ReturnDocs == {"search", "all", "get", "iter"}

\* The state after instance t's call `op` with outcome r. The model follows a
\* call only while the stored and the allocated IDs stay within `bound`.
CommitWithin(bound, t, op, r) ==
    /\ DOMAIN r.storage \subseteq 1..bound
    /\ r.self.next_id <= bound + 1
    /\ storage' = r.storage
    /\ next_id' = [next_id EXCEPT ![t] = r.self.next_id]
    /\ query_cache' = [query_cache EXCEPT ![t] = r.self.query_cache]
    /\ ret' = [t |-> t, op |-> op, raised |-> r.raised, reads |-> r.reads,
               val |-> IF op \in ReturnDocs THEN <<>> ELSE r.val,
               docs |-> IF op \in ReturnDocs THEN r.val ELSE <<>>]
    /\ UNCHANGED capacity

Commit(t, op, r) == CommitWithin(MaxId, t, op, r)
\* What no call on a Table touches
Rest == <<auto_last, call, pending, returned, lru_vars>>

Insert(t) ==
    \E document \in Objects :
        /\ Commit(t, "insert", insert(storage, Self(t), document))
        /\ UNCHANGED Rest

InsertMultiple(t) ==
    \E documents \in SeqsUpTo(BatchObjects, MaxBatch) :
        /\ Commit(t, "insert_multiple", insert_multiple(storage, Self(t), documents))
        /\ UNCHANGED Rest

Update(t) ==
    \E fields \in Fields, sel \in Selections :
        /\ Commit(t, "update", update(storage, Self(t), fields, sel[1], sel[2]))
        /\ UNCHANGED Rest

UpdateMultiple(t) ==
    \E updates \in SeqsUpTo(Updates, MaxBatch) :
        /\ Commit(t, "update_multiple", update_multiple(storage, Self(t), updates))
        /\ UNCHANGED Rest

Upsert(t) ==
    \E u \in Upserts :
        /\ Commit(t, "upsert", upsert(storage, Self(t), u[1], u[2]))
        /\ UNCHANGED Rest

Remove(t) ==
    \E sel \in Selections :
        /\ Commit(t, "remove", remove(storage, Self(t), sel[1], sel[2]))
        /\ UNCHANGED Rest

Truncate(t) ==
    /\ Commit(t, "truncate", truncate(storage, Self(t)))
    /\ UNCHANGED Rest

Search(t) ==
    \E cond \in Conds :
        /\ Commit(t, "search", search(storage, Self(t), cond))
        /\ UNCHANGED Rest

ClearCache(t) ==
    /\ Commit(t, "clear_cache", clear_cache(storage, Self(t)))
    /\ UNCHANGED Rest

\* One Table instance, the only user of its storage
Init == TableInit /\ LruInit /\ capacity["B"] = 0 /\ lru_capacity = None
Next ==
    \/ Insert("A")
    \/ InsertMultiple("A")
    \/ Update("A")
    \/ UpdateMultiple("A")
    \/ Upsert("A")
    \/ Remove("A")
    \/ Truncate("A")
    \/ Search("A")
    \/ ClearCache("A")
Spec == Init /\ [][Next]_vars

\* Two Table instances on one storage, each call running to its end before the next
InitShared ==
    /\ TableInit /\ LruInit
    /\ capacity = [t \in Inst |-> 0] /\ lru_capacity = None
NextShared ==
    \E t \in Inst :
        \/ Insert(t)
        \/ InsertMultiple(t)
        \/ Update(t)
        \/ Upsert(t)
        \/ Remove(t)
        \/ Truncate(t)
SpecShared == InitShared /\ [][NextShared]_vars

\* One Table instance that is only used for inserts without explicit IDs, followed
\* one ID and one batch element further than the other specifications
AutoInsert ==
    \E document \in PlainDicts :
        LET r == insert(storage, Self("A"), document)
        IN /\ CommitWithin(MaxId + 1, "A", "insert", r)
           /\ auto_last' = r.val[1]
           /\ UNCHANGED <<call, pending, returned, lru_vars>>
AutoInsertMultiple ==
    \E documents \in SeqsUpTo(PlainDicts, MaxBatch + 1) :
        LET r == insert_multiple(storage, Self("A"), documents)
        IN /\ CommitWithin(MaxId + 1, "A", "insert_multiple", r)
           /\ auto_last' = IF r.val = <<>> THEN auto_last ELSE r.val[Len(r.val)]
           /\ UNCHANGED <<call, pending, returned, lru_vars>>
NextAuto == AutoInsert \/ AutoInsertMultiple
SpecAuto == Init /\ [][NextAuto]_vars

\* One Table instance whose update and remove calls are followed with their
\* arguments; the lists of IDs name stored IDs, an ID that no table holds
\* (MaxId + 1), both, and an ID twice
SelIdLists == {<<>>, <<1>>, <<MaxId + 1>>, <<1, MaxId + 1>>, <<MaxId + 1, 2>>,
               <<2, 1>>, <<1, 1>>}
SelSelections == {<<c, NoIds>> : c \in OptConds}
                 \cup {<<c, IdList(l)>> : c \in {NoCond, "x0"}, l \in SelIdLists}
SelFields == {FieldsDict(1), FieldsCallable}
InitSel == Init /\ capacity["A"] = 1
SelUpdate ==
    \E fields \in SelFields, sel \in SelSelections :
        /\ Commit("A", "update", update(storage, Self("A"), fields, sel[1], sel[2]))
        /\ call' = Args(<<>>, sel[1], None, sel[2])
        /\ UNCHANGED <<auto_last, pending, returned, lru_vars>>
SelRemove ==
    \E sel \in SelSelections :
        /\ Commit("A", "remove", remove(storage, Self("A"), sel[1], sel[2]))
        /\ call' = Args(<<>>, sel[1], None, sel[2])
        /\ UNCHANGED <<auto_last, pending, returned, lru_vars>>
NextSel ==
    \/ SelUpdate
    \/ SelRemove
    \/ Insert("A")
    \/ Search("A")
SpecSel == InitSel /\ [][NextSel]_vars

\* One Table instance whose insert_multiple calls are followed with their
\* documents, the batches one element longer than in the other specifications
InitBatch == Init /\ capacity["A"] = 0
BatchInsertMultiple ==
    \E documents \in SeqsUpTo(BatchObjects, MaxBatch + 1) :
        /\ Commit("A", "insert_multiple", insert_multiple(storage, Self("A"), documents))
        /\ call' = Args(documents, NoCond, None, NoIds)
        /\ UNCHANGED <<auto_last, pending, returned, lru_vars>>
NextBatch ==
    \/ BatchInsertMultiple
    \/ Truncate("A")
SpecBatch == InitBatch /\ [][NextBatch]_vars

\* One Table instance whose ID cursor is followed: calls of _get_next_id, inserts
\* with and without explicit IDs, and truncate
CursorGetNextId ==
    LET g == get_next_id(storage, next_id["A"])
    IN /\ Commit("A", "_get_next_id",
                 [storage |-> storage, self |-> [Self("A") EXCEPT !.next_id = g.next_id],
                  val |-> <<g.id>>, raised |-> FALSE, reads |-> g.reads])
       /\ auto_last' = g.id
       /\ UNCHANGED <<call, pending, returned, lru_vars>>
CursorInsert ==
    \E document \in PlainDicts \cup Documents :
        LET r == insert(storage, Self("A"), document)
        IN /\ Commit("A", "insert", r)
           /\ auto_last' = IF is_document(document) THEN auto_last ELSE r.val[1]
           /\ call' = Args(<<document>>, NoCond, None, NoIds)
           /\ UNCHANGED <<pending, returned, lru_vars>>
CursorTruncate ==
    /\ Commit("A", "truncate", truncate(storage, Self("A")))
    /\ auto_last' = 0
    /\ UNCHANGED <<call, pending, returned, lru_vars>>
NextCursor ==
    \/ CursorGetNextId
    \/ CursorInsert
    \/ CursorTruncate
SpecCursor == InitShared /\ [][NextCursor]_vars

\* One Table instance whose inserts are followed with the IDs they return,
\* between removes of stored documents and truncates
ReuseInsert ==
    \E document \in PlainDicts \cup Documents :
        LET r == insert(storage, Self("A"), document)
        IN /\ Commit("A", "insert", r)
           /\ call' = Args(<<document>>, NoCond, None, NoIds)
           /\ returned' = IF r.raised THEN returned ELSE returned \cup {r.val[1]}
           /\ UNCHANGED <<auto_last, pending, lru_vars>>
ReuseRemove ==
    \E d \in DOMAIN storage :
        /\ Commit("A", "remove", remove(storage, Self("A"), NoCond, IdList(<<d>>)))
        /\ UNCHANGED Rest
ReuseTruncate ==
    /\ Commit("A", "truncate", truncate(storage, Self("A")))
    /\ returned' = {}
    /\ UNCHANGED <<auto_last, call, pending, lru_vars>>
NextReuse ==
    \/ ReuseInsert
    \/ ReuseRemove
    \/ ReuseTruncate
SpecReuse == InitShared /\ [][NextReuse]_vars

\* One Table instance whose read operations are followed, get and contains with
\* their arguments
InitRead == Init /\ capacity["A"] = default_query_cache_capacity
ReadDocIds == {None, 1, MaxId + 1}
ReadIdLists == {NoIds, IdList(<<>>), IdList(<<2, MaxId + 1>>)}
ReadAll ==
    /\ Commit("A", "all", [storage |-> storage, self |-> Self("A"), val |-> all(storage),
                          raised |-> FALSE, reads |-> 1])
    /\ UNCHANGED Rest
ReadGet ==
    \E cond \in OptConds, doc_id \in ReadDocIds, doc_ids \in ReadIdLists :
        /\ Commit("A", "get", get(storage, Self("A"), cond, doc_id, doc_ids))
        /\ call' = Args(<<>>, cond, doc_id, doc_ids)
        /\ UNCHANGED <<auto_last, pending, returned, lru_vars>>
ReadContains ==
    \E cond \in OptConds, doc_id \in ReadDocIds :
        /\ Commit("A", "contains", contains(storage, Self("A"), cond, doc_id))
        /\ call' = Args(<<>>, cond, doc_id, NoIds)
        /\ UNCHANGED <<auto_last, pending, returned, lru_vars>>
ReadCount ==
    \E cond \in Conds :
        /\ Commit("A", "count", count(storage, Self("A"), cond))
        /\ call' = Args(<<>>, cond, None, NoIds)
        /\ UNCHANGED <<auto_last, pending, returned, lru_vars>>
ReadLen ==
    /\ Commit("A", "len", table_len(storage, Self("A")))
    /\ UNCHANGED Rest
ReadIter ==
    /\ Commit("A", "iter", table_iter(storage, Self("A")))
    /\ UNCHANGED Rest
ReadSearch ==
    \E cond \in Conds :
        /\ Commit("A", "search", search(storage, Self("A"), cond))
        /\ call' = Args(<<>>, cond, None, NoIds)
        /\ UNCHANGED <<auto_last, pending, returned, lru_vars>>
NextRead ==
    \/ ReadAll
    \/ ReadGet
    \/ ReadContains
    \/ ReadCount
    \/ ReadLen
    \/ ReadIter
    \/ ReadSearch
    \/ Insert("A")
SpecRead == InitRead /\ [][NextRead]_vars

\* Two Table instances on one storage whose calls interleave inside
\* _update_table: a call reads the snapshot in one step and, after any steps of
\* the other instance, runs its updater on that snapshot and writes in another.
\* The calls read storage once: insert of a Document whose ID the snapshot lacks,
\* update and remove by predicate, truncate.
RaceCalls ==
    {[NoPending EXCEPT !.op = "insert", !.document = Document(1, d)] : d \in Ids}
    \cup {[NoPending EXCEPT !.op = "update", !.fields = FieldsDict(1), !.cond = "x0"],
          [NoPending EXCEPT !.op = "remove", !.cond = "x0"],
          [NoPending EXCEPT !.op = "truncate"]}
\* The outcome of the call c on the snapshot it read
RaceOutcome(c, self) ==
    CASE c.op = "insert" -> insert(c.snapshot, self, c.document)
      [] c.op = "update" -> update(c.snapshot, self, c.fields, c.cond, NoIds)
      [] c.op = "remove" -> remove(c.snapshot, self, c.cond, NoIds)
      [] c.op = "truncate" -> truncate(c.snapshot, self)
RaceRead(t) ==
    \E c \in RaceCalls :
        /\ ~pending[t].active
        /\ c.op = "insert" => c.document.doc_id \notin DOMAIN storage
        /\ pending' = [pending EXCEPT ![t] = [c EXCEPT !.active = TRUE,
                                                       !.snapshot = storage]]
        /\ UNCHANGED <<storage, next_id, query_cache, capacity, ret,
                       auto_last, call, returned, lru_vars>>
RaceWrite(t) ==
    /\ pending[t].active
    /\ LET r == RaceOutcome(pending[t], Self(t))
       IN Commit(t, pending[t].op,
                 [r EXCEPT !.storage = update_table_write(storage, r.storage)])
    /\ pending' = [pending EXCEPT
                       ![t] = [@ EXCEPT !.active = FALSE,
                                        !.lost = (storage # pending[t].snapshot)]]
    /\ UNCHANGED <<auto_last, call, returned, lru_vars>>
NextRace ==
    \E t \in Inst :
        \/ RaceRead(t)
        \/ RaceWrite(t)
SpecRace == InitShared /\ [][NextRace]_vars

\* The LRUCache on its own
InitLRU ==
    /\ LruInit /\ TableInit
    /\ storage = <<>> /\ capacity = [t \in Inst |-> 0]
NextLRU == LruNext
SpecLRU == InitLRU /\ [][NextLRU]_vars

\* ================================================================ claims
A == "A"
\* The operations that write the table
Mutating == {"insert", "insert_multiple", "update", "update_multiple", "upsert",
             "remove", "truncate"}
\* The step is instance t's call insert(document)
InsertStep(t, document) == Commit(t, "insert", insert(storage, Self(t), document))
\* The step is instance t's call search(cond)
SearchStep(t, cond) == Commit(t, "search", search(storage, Self(t), cond))
\* The documents of the stored table that satisfy cond
Matches(cond) == SelectSeq(all(storage), LAMBDA doc : cond_call(cond, doc))
\* The key a cache used last
LastKey(c) == c[Len(c)][1]

\* C1: insert(Document(content, doc_id=d)) with d already stored raises the
\* duplicate-ID error: it returns no ID and leaves the stored table unchanged.
C1_DuplicateIdRaises ==
    [][\A v \in Vals, d \in Ids :
          (d \in DOMAIN storage /\ InsertStep(A, Document(v, d)))
          => (ret'.raised /\ ret'.val = <<>> /\ storage' = storage)]_vars

\* C2: insert(plain mapping) whose first allocated ID collides with a stored
\* document returns an ID that was not stored before the call, adds exactly one
\* document, and leaves every document stored before as it was.
C2_CollisionGetsFreeId ==
    [][\A t \in Inst, v \in Vals :
          (/\ get_next_id(storage, next_id[t]).id \in DOMAIN storage
           /\ InsertStep(t, PlainDict(v)))
          => (/\ ~ret'.raised
              /\ ret'.val[1] \notin DOMAIN storage
              /\ DOMAIN storage' = DOMAIN storage \cup {ret'.val[1]}
              /\ \A d \in DOMAIN storage : storage'[d] = storage[d])]_vars

\* C3: on a Table only used for inserts without explicit IDs, the IDs returned are
\* strictly increasing, within one insert_multiple batch and from call to call.
C3_AutoIdsIncrease ==
    [][/\ \A i \in 1..(Len(ret'.val) - 1) : ret'.val[i] < ret'.val[i + 1]
       /\ (ret'.val # <<>> /\ auto_last # 0) => auto_last < ret'.val[1]]_vars

\* C4: upsert(Document(content, doc_id=d)) stores the content under exactly d and
\* returns [d]: it inserts d when d is not stored, and updates d in place, the set
\* of stored IDs staying the same, when d is stored.
C4_UpsertKeepsExplicitId ==
    [][\A v \in Vals, d \in Ids :
          Commit(A, "upsert", upsert(storage, Self(A), Document(v, d), NoCond))
          => (/\ ret'.val = <<d>>
              /\ DOMAIN storage' = DOMAIN storage \cup {d}
              /\ storage'[d] = [x |-> v]
              /\ \A e \in DOMAIN storage \ {d} : storage'[e] = storage[e])]_vars

\* C5 as stated: after every mutating operation that completed, update_multiple
\* included, the query cache is empty.
C5_CacheEmptyAfterMutation ==
    (ret.op \in Mutating /\ ~ret.raised) => query_cache[ret.t] = <<>>

\* C5 as amended: after every insert, insert_multiple, update, upsert, remove and
\* truncate that completed the query cache is empty, whether or not a document
\* changed; and so it is after an update_multiple that was given at least one
\* update, while update_multiple([]) leaves the cache as it was.
C5_CacheEmptyAfterWrite ==
    /\ []((ret.op \in Mutating \ {"update_multiple"} /\ ~ret.raised)
            => query_cache[ret.t] = <<>>)
    /\ [][\A updates \in SeqsUpTo(Updates, MaxBatch) :
             Commit(A, "update_multiple", update_multiple(storage, Self(A), updates))
             => query_cache'[A] = IF updates = <<>> THEN query_cache[A] ELSE <<>>]_vars

\* C5's case: a remove that found nothing to remove in a table that holds
\* documents, on an instance with a cache, has left the cache empty.
C5_Witness ==
    /\ ret.op = "remove" /\ ~ret.raised /\ ret.val = <<>>
    /\ storage # <<>> /\ capacity[A] >= 1 /\ query_cache[A] = <<>>

\* C6, first half (holds as stated): with capacity >= 1, search(p) that follows
\* searches only, the cache still holding p's entry, reads no storage and returns
\* the list the cache holds for p; directly after search(p) that is the list the
\* first call returned.
C6_SecondSearchHits ==
    \A p \in Conds :
        (/\ capacity[A] >= 1 /\ ret.op = "search"
         /\ od_has(query_cache[A], p)
         /\ SearchStep(A, p))
        => (/\ ret'.reads = 0
            /\ ret'.docs = od_value(query_cache[A], p)
            /\ LastKey(query_cache[A]) = p => ret'.docs = ret.docs)

\* C6 as stated: the first half, and after any mutating call that completed,
\* update_multiple included, the next search(p) is a miss that reads storage and
\* evaluates p over the stored documents.
C6_HitUntilAnyMutatingCall ==
    [][/\ C6_SecondSearchHits
       /\ \A p \in Conds :
            (ret.op \in Mutating /\ ~ret.raised /\ SearchStep(A, p))
            => (ret'.reads = 1 /\ ret'.docs = Matches(p))]_vars

\* C6 as amended: the first half, and after any mutating call that completed,
\* but for an update_multiple that was given no update (it makes no update call
\* and reads nothing), the next search(p) is a miss that reads storage and
\* evaluates p over the stored documents.
C6_HitUntilWrite ==
    [][/\ C6_SecondSearchHits
       /\ \A p \in Conds :
            (/\ ret.op \in Mutating /\ ~ret.raised
             /\ (ret.op = "update_multiple" => ret.reads > 0)
             /\ SearchStep(A, p))
            => (ret'.reads = 1 /\ ret'.docs = Matches(p))]_vars

\* C6's case: a search was served from the cache, with documents in the list.
C6_Witness ==
    /\ ret.op = "search" /\ ret.reads = 0 /\ ret.docs # <<>>
    /\ capacity[A] >= 1 /\ od_value(query_cache[A], LastKey(query_cache[A])) = ret.docs

\* C7: with a capacity set, len(cache) <= capacity after every operation; a set of
\* a new key on a full cache removes exactly one entry, and a set that overwrites
\* a key removes none.
C7_CapacityBound ==
    /\ [](lru_capacity # None => LRUCache_len(lru_cache) <= lru_capacity)
    /\ [][lru_ret'.op = "set" =>
            LET k == lru_ret'.key
                before == od_keyset(lru_cache)
                after == od_keyset(lru_cache')
            IN /\ (/\ k \notin before /\ lru_capacity # None
                   /\ LRUCache_len(lru_cache) = lru_capacity)
                  => (/\ after \subseteq before \cup {k}
                      /\ Cardinality((before \cup {k}) \ after) = 1)
               /\ k \in before => after = before]_vars

\* C7's case: a set on a full cache of capacity 2 has evicted a key.
C7_Witness ==
    /\ lru_capacity = 2 /\ LRUCache_len(lru_cache) = 2 /\ lru_ret.op = "set"
    /\ \E k \in Keys : lru_used[k] > 0 /\ ~od_has(lru_cache, k)

\* C8: lru lists the present keys by the time of their last successful get or
\* set, oldest first, and the key an overflowing set evicts is the one whose last
\* get or set is the oldest.
C8_RecencyOrder ==
    /\ [](LET l == LRUCache_lru(lru_cache)
          IN /\ \A i \in 1..Len(l) : lru_used[l[i]] > 0
             /\ \A i, j \in 1..Len(l) : i < j => lru_used[l[i]] < lru_used[l[j]])
    /\ [][lru_ret'.op = "set" =>
            LET before == od_keyset(lru_cache) \cup {lru_ret'.key}
                after == od_keyset(lru_cache')
            IN \A e \in before \ after, k \in after : lru_used'[e] < lru_used'[k]]_vars

\* C8's case: capacity 2, set(a), set(b), get(a), set(c) has left exactly a and c.
C8_Witness ==
    /\ lru_capacity = 2 /\ LRUCache_lru(lru_cache) = <<"a", "c">>
    /\ lru_ret.op = "set" /\ lru_ret.key = "c"
    /\ lru_used = [k \in Keys |-> IF k = "a" THEN 3 ELSE IF k = "b" THEN 2 ELSE 4]

\* C9: contains(key) changes nothing of the cache, for present and absent keys:
\* the keys, the values and the recency order are the same after the call.
C9_ContainsIsPure ==
    [][lru_ret'.op = "contains"
       => (/\ lru_cache' = lru_cache
           /\ lru_ret'.val = IF od_has(lru_cache, lru_ret'.key) THEN 1 ELSE 0)]_vars

\* C9's case: contains was called for the least recently used of several keys,
\* which still is the least recently used.
C9_Witness ==
    /\ lru_ret.op = "contains" /\ lru_ret.val = 1
    /\ LRUCache_len(lru_cache) >= 2 /\ LRUCache_lru(lru_cache)[1] = lru_ret.key

\* C10: after truncate() the table holds no documents and the query cache is
\* empty, and an insert of a plain mapping directly after it returns ID 1.
C10_TruncateThenInsert ==
    /\ [](ret.op = "truncate" => storage = <<>> /\ query_cache[ret.t] = <<>>)
    /\ [][\A v \in Vals :
             (ret.op = "truncate" /\ InsertStep(A, PlainDict(v)))
             => (ret'.val = <<1>> /\ storage' = (1 :> [x |-> v]))]_vars

\* C10's case: an insert that found the cursor set and the table empty, as after a
\* truncate, has stored its document under ID 1.
C10_Witness ==
    /\ ret.op = "insert" /\ ret.val = <<1>> /\ ret.reads = 1
    /\ DOMAIN storage = {1} /\ next_id[A] = 2

\* C11: remove() with neither a predicate nor IDs raises before storage is read
\* or written: the stored table, the query cache and the ID cursor are unchanged.
C11_RemoveNeedsCriteria ==
    [][(/\ ret'.op = "remove"
        /\ call'.cond = NoCond /\ ~call'.doc_ids.given)
       => (/\ ret'.raised /\ ret'.reads = 0 /\ ret'.val = <<>>
           /\ storage' = storage
           /\ query_cache' = query_cache
           /\ next_id' = next_id)]_vars

\* C11's case: remove() has raised on a table that holds documents, with entries
\* in the query cache and the cursor set.
C11_Witness ==
    /\ ret.op = "remove" /\ ret.raised
    /\ call.cond = NoCond /\ ~call.doc_ids.given
    /\ storage # <<>> /\ query_cache[A] # <<>> /\ next_id[A] # None

\* C12: update(fields, doc_ids=ids) does not raise and returns the requested IDs
\* that exist; the set of stored IDs stays the same and every document whose ID
\* was not requested keeps its content.
C12_UpdateByIdsSkipsMissing ==
    [][(ret'.op = "update" /\ call'.doc_ids.given)
       => LET ids == call'.doc_ids.list
          IN /\ ~ret'.raised
             /\ ret'.val = SelectSeq(ids, LAMBDA d : d \in DOMAIN storage)
             /\ DOMAIN storage' = DOMAIN storage
             /\ \A d \in DOMAIN storage \ Elems(ids) : storage'[d] = storage[d]]_vars

\* C12's case: update was given an ID that exists and one that does not, and has
\* returned the one that exists, another document staying in the table.
C12_Witness ==
    /\ ret.op = "update" /\ ~ret.raised /\ call.doc_ids.given
    /\ Elems(call.doc_ids.list) = {1, MaxId + 1} /\ ret.val = <<1>>
    /\ DOMAIN storage = {1, 2}

\* C13: remove deletes the selected documents that exist (the requested IDs when
\* IDs are given, with or without a predicate; else the documents that satisfy
\* the predicate), returns the IDs it deleted, each once, skips requested IDs
\* that are absent, and leaves every other document unchanged.
C13_RemoveDeletesSelection ==
    [][(ret'.op = "remove" /\ ~ret'.raised)
       => LET selected ==
                  IF call'.doc_ids.given
                  THEN Elems(call'.doc_ids.list) \cap DOMAIN storage
                  ELSE {d \in DOMAIN storage : cond_call(call'.cond, storage[d])}
          IN /\ DOMAIN storage' = DOMAIN storage \ selected
             /\ \A d \in DOMAIN storage' : storage'[d] = storage[d]
             /\ Elems(ret'.val) = selected
             /\ Len(ret'.val) = Cardinality(selected)]_vars

\* C13's case: remove was given a predicate and IDs, one of them absent, has
\* deleted the requested document that existed, and another document stays.
C13_Witness ==
    /\ ret.op = "remove" /\ ~ret.raised
    /\ call.cond # NoCond /\ call.doc_ids.given
    /\ Elems(call.doc_ids.list) = {2, MaxId + 1} /\ ret.val = <<2>>
    /\ DOMAIN storage = {1}

\* C14: an insert_multiple call that fails leaves the stored table as it was, and
\* a batch with an element that is no mapping, or with a Document whose ID is
\* stored, does fail.
C14_FailedBatchStoresNothing ==
    [][ret'.op = "insert_multiple"
       => LET documents == call'.documents
          IN /\ ret'.raised => (storage' = storage /\ ret'.val = <<>>)
             /\ (\E i \in 1..Len(documents) :
                    \/ ~is_mapping(documents[i])
                    \/ /\ is_document(documents[i])
                       /\ documents[i].doc_id \in DOMAIN storage)
                => ret'.raised]_vars

\* C14's case: insert_multiple([plain mapping, Document with a stored ID]) on a
\* fresh Table has raised in the updater, after the updater had placed the first
\* document under the ID allocated for it, and that ID is not stored.
C14_Witness ==
    /\ ret.op = "insert_multiple" /\ ret.raised /\ ret.reads = 2
    /\ Len(call.documents) = 2
    /\ ~is_document(call.documents[1]) /\ is_mapping(call.documents[1])
    /\ is_document(call.documents[2]) /\ call.documents[2].doc_id \in DOMAIN storage
    /\ next_id[A] \notin DOMAIN storage

\* C15: a successful insert_multiple of n documents returns n pairwise distinct
\* IDs in input order, the i-th ID holding the i-th document afterwards, explicit
\* IDs kept; the table grows by n documents and no stored document changes.
C15_BatchKeepsEveryDocument ==
    [][(ret'.op = "insert_multiple" /\ ~ret'.raised)
       => LET documents == call'.documents
              ids == ret'.val
          IN /\ Len(ids) = Len(documents)
             /\ \A i, j \in 1..Len(ids) : i # j => ids[i] # ids[j]
             /\ \A i \in 1..Len(ids) :
                    /\ ids[i] \in DOMAIN storage'
                    /\ storage'[ids[i]] = items(documents[i])
                    /\ is_document(documents[i]) => ids[i] = documents[i].doc_id
             /\ DOMAIN storage' = DOMAIN storage \cup Elems(ids)
             /\ Cardinality(DOMAIN storage') = Cardinality(DOMAIN storage) + Len(ids)
             /\ \A d \in DOMAIN storage : storage'[d] = storage[d]]_vars

\* max(existing ids) + 1, or 1 for an empty table
NextFree(table) == IF DOMAIN table = {} THEN 1 ELSE Max(DOMAIN table) + 1

\* C16: with the cursor unset, _get_next_id reads the table and returns
\* max(existing ids) + 1, or 1; with the cursor set it reads nothing; and a call
\* that follows a call returns the next value.
C16_CursorIsConsecutive ==
    [][ret'.op = "_get_next_id"
       => (/\ next_id[A] = None
              => (ret'.val = <<NextFree(storage)>> /\ ret'.reads = 1)
           /\ next_id[A] # None => ret'.reads = 0
           /\ ret.op = "_get_next_id" => ret'.val[1] = ret.val[1] + 1)]_vars

\* C17: truncate() leaves the cursor unset, as construction does, so that the
\* first allocation after a truncate, by an insert without explicit ID, is
\* max(existing ids) + 1 of the table stored at that time, or 1.
C17_TruncateUnsetsCursor ==
    /\ [](ret.op = "truncate" => next_id[ret.t] = None)
    /\ [][(/\ ret'.op = "insert" /\ ~ret'.raised
            /\ ~is_document(call'.documents[1])
            /\ auto_last = 0)
           => ret'.val = <<NextFree(storage)>>]_vars

\* The read operations, and whether the last call looked documents up by a
\* predicate (search and count; get and contains when given no ID)
ReadOps == {"all", "search", "get", "contains", "count", "len", "iter"}
ByPredicate(r, c) ==
    \/ r.op \in {"search", "count"}
    \/ r.op = "get" /\ c.doc_id = None /\ ~c.doc_ids.given
    \/ r.op = "contains" /\ c.doc_id = None

\* C18: all, search, get, contains, count, len and iteration leave the stored
\* table and the ID cursor unchanged; all of them but the lookups by predicate
\* leave the query cache unchanged too, and a lookup by predicate leaves its
\* predicate as the cache's most recently used key.
C18_ReadsDoNotWrite ==
    [][ret'.op \in ReadOps
       => (/\ storage' = storage
           /\ next_id' = next_id
           /\ ~ByPredicate(ret', call') => query_cache' = query_cache
           /\ (ByPredicate(ret', call') /\ ~ret'.raised)
              => LastKey(query_cache'[A]) = call'.cond)]_vars

\* C18's case: get(doc_id=1) has returned document 1 on a Table whose cursor is
\* set and whose query cache holds two entries.
C18_Witness ==
    /\ ret.op = "get" /\ call.doc_id = 1 /\ ret.docs # <<>>
    /\ next_id[A] # None /\ Len(query_cache[A]) = 2

\* The table that the call c's transformation makes of the snapshot it read
Transformed(c) ==
    LET snap == c.snapshot
    IN CASE c.op = "insert" ->
                [d \in DOMAIN snap \cup {c.document.doc_id} |->
                    IF d = c.document.doc_id THEN [x |-> c.document.x] ELSE snap[d]]
         [] c.op = "update" ->
                [d \in DOMAIN snap |->
                    IF cond_call(c.cond, snap[d]) THEN [x |-> c.fields.x] ELSE snap[d]]
         [] c.op = "remove" ->
                [d \in {e \in DOMAIN snap : ~cond_call(c.cond, snap[e])} |-> snap[d]]
         [] c.op = "truncate" -> <<>>

\* C19: when an instance writes inside _update_table, whatever the other
\* instance wrote since this one read its snapshot, the table afterwards holds
\* this call's transformation of the snapshot it read, and the call reports no
\* error.
C19_LastWriteWins ==
    [][\A t \in Inst :
          (pending[t].active /\ ~pending'[t].active)
          => (/\ storage' = Transformed(pending[t])
              /\ ret'.t = t /\ ~ret'.raised)]_vars

\* C19's case: B inserted document 2 between A's read and A's write of an
\* update; A's write has completed and document 2 is gone.
C19_Witness ==
    /\ ret.t = "A" /\ ret.op = "update" /\ ~ret.raised
    /\ ~pending["A"].active /\ pending["A"].lost
    /\ ~pending["B"].active /\ pending["B"].op = "insert"
    /\ pending["B"].document.doc_id = 2
    /\ pending["B"].snapshot = pending["A"].snapshot
    /\ DOMAIN storage = {1}

\* C20: on a single Table instance that is the only writer of its storage, every
\* entry of the query cache holds, for its predicate, the documents of the
\* stored table that satisfy it, after successful and after failed calls.
C20_CacheCoherent ==
    \A i \in 1..Len(query_cache[A]) :
        query_cache[A][i][2] = Matches(query_cache[A][i][1])

\* C20's case: insert_multiple has failed on a stored ID while the query cache
\* holds the documents a search found.
C20_Witness ==
    /\ ret.op = "insert_multiple" /\ ret.raised /\ ret.reads = 1
    /\ query_cache[A] # <<>> /\ query_cache[A][1][2] # <<>>

\* C21: between two truncates, an insert of a plain mapping never returns an ID
\* that an earlier insert on the same Table instance has returned, also when the
\* document that held the ID was removed in between.
C21_AutoIdNeverReused ==
    [][(/\ ret'.op = "insert" /\ ~ret'.raised
        /\ ~is_document(call'.documents[1]))
       => ret'.val[1] \notin returned]_vars

====
